---- MODULE Spec2Model ----
(***************************************************************************)
(* Model of Screen (src/src/screen.rs): the bounded history, the two-mode  *)
(* scroll state (scroll_data) and the rows of the terminal the Screen      *)
(* writes to.                                                              *)
(*                                                                         *)
(* A display line is modelled by a number: every non-blank fragment that   *)
(* is appended gets a fresh positive number, Blank (0) is the empty or     *)
(* whitespace-only fragment and what a cleared terminal row shows.  A line *)
(* handed to the Screen is the sequence of its "\r\n"-separated fragments. *)
(* Lines are taken to fit the terminal width, so a written fragment        *)
(* occupies exactly one row.                                               *)
(***************************************************************************)
EXTENDS Integers, Sequences, FiniteSets, TLC

\* ---------------------------------------------------------------- bounds
\* Stand-in for the 1024 of VecDeque::with_capacity(1024), scaled down.
HistoryCapacity == 8
\* Terminal heights reported by termion::terminal_size().
MinHeight == 4
MaxHeight == 5
\* Total number of fragments the callers append in one run.
MaxLines == 9
\* Largest number of fragments of one line, and of lines one wrap produces.
MaxFragments == 2
\* Terminal widths reported by termion::terminal_size().
MinWidth == 1
MaxWidth == 3
\* Longest text handed to print_prompt_input.
MaxInput == 7
\* Under SpecResize: the largest height a resize leads to, the number of
\* fragments after which nothing more is appended, and the longest text
\* handed to print_prompt_input.
MaxResizeHeight == 6
MaxResizeLines == 4
MaxResizeInput == 1
\* Stand-in for 2^64, the modulus of an `as usize` cast of a negative i32.
UsizeModulus == 1048576

\* ------------------------------------------------------------- constants
OUTPUT_START_LINE == 2
ScrollStep == 5
Blank == 0
Separator == -1
\* The values of a u16 are 0..U16Modulus - 1.
U16Modulus == 65536
\* The outcome of an arithmetic overflow in a build with overflow checks: a panic.
Overflow == -1

VARIABLES
    output_line,   \* Screen.output_line
    prompt_line,   \* Screen.prompt_line
    history,       \* Screen.history, front first
    capacity,      \* Screen.history.capacity()
    scroll_data,   \* Screen.scroll_data: <<scrolling?, start index>>
    screen,        \* the terminal rows 1..prompt_line as Screen.screen left them
    panicked,      \* an index outside the history was read (the process aborts)
    appended,      \* every fragment handed to append_to_history so far, in order
    last,          \* the last operation, the state it started in, its write! calls
    trip,          \* progress of a scroll_up ... scroll_down round trip
    width,         \* Screen.width
    input_shown,   \* the text print_prompt_input left on the prompt row
    typed,         \* the text handed to print_prompt_input last
    paused,        \* number of fragments appended since scrolling began
    stale          \* setup changed the height while scrolling, no reset_scroll since

vars == <<output_line, prompt_line, history, capacity, scroll_data, screen,
          panicked, appended, last, trip, width, input_shown, typed, paused,
          stale>>

Min(a, b) == IF a < b THEN a ELSE b
Max(a, b) == IF a > b THEN a ELSE b

\* Number of rows of the output region: OUTPUT_START_LINE..output_line.
VisibleRows(ol) == ol - OUTPUT_START_LINE + 1

\* -------------------------------------------------------------- terminal
\* termion::scroll::Up(1) inside the scroll region OUTPUT_START_LINE..ol that
\* setup installed: every row of the region takes the row below it, the
\* bottom row of the region becomes blank.
ScrollRegionUp(scr, ol) ==
    [r \in DOMAIN scr |->
        IF r >= OUTPUT_START_LINE /\ r < ol THEN scr[r + 1]
        ELSE IF r = ol THEN Blank
        ELSE scr[r]]

\* Text written with the cursor on the bottom row of the scroll region: the
\* first fragment lands on that row, every following "\r\n" scrolls the
\* region up by one row and the next fragment lands on the bottom row again.
RECURSIVE WriteText(_, _, _)
WriteText(scr, ol, fs) ==
    IF fs = <<>> THEN scr
    ELSE LET put == [scr EXCEPT ![ol] = Head(fs)]
         IN  IF Len(fs) = 1 THEN put
             ELSE WriteText(ScrollRegionUp(put, ol), ol, Tail(fs))

\* Goto(1, output_line), scroll::Up(1), text: the write! of print_line.
RenderLine(scr, ol, fs) == WriteText(ScrollRegionUp(scr, ol), ol, fs)

\* str::trim_end on a line: trailing empty fragments (and their "\r\n") go.
RECURSIVE TrimEnd(_)
TrimEnd(fs) ==
    IF fs = <<>> THEN fs
    ELSE IF fs[Len(fs)] = Blank THEN TrimEnd(SubSeq(fs, 1, Len(fs) - 1))
    ELSE fs

\* --------------------------------------------------------------- history
\* VecDeque growth when push_back finds the buffer full: the capacity doubles.
\* (capacity() after with_capacity(n) is at least n; the model takes it to be
\* exactly n, and full to mean len = capacity().)
Grow(cap) == 2 * cap

\* history.push_back(x): <<history, capacity>> afterwards.
PushBack(hc, x) ==
    <<Append(hc[1], x), IF Len(hc[1]) = hc[2] THEN Grow(hc[2]) ELSE hc[2]>>

RECURSIVE PushAll(_, _)
PushAll(hc, fs) ==
    IF fs = <<>> THEN hc ELSE PushAll(PushBack(hc, Head(fs)), Tail(fs))

\* An eviction at the front: the oldest entry goes.
PopFront(h) == Tail(h)

\* history.pop_back(): the entry at the back, the one pushed last, goes.
PopBack(h) == SubSeq(h, 1, Len(h) - 1)

\* while history.len() >= history.capacity() { history.pop_back(); }
RECURSIVE Evict(_)
Evict(hc) ==
    IF Len(hc[1]) >= hc[2] THEN Evict(<<PopBack(hc[1]), hc[2]>>) ELSE hc

\* append_to_history(line): push every fragment, then evict.
AppendToHistory(hc, fs) == Evict(PushAll(hc, fs))

\* ---------------------------------------------------------------- redraw
\* The rows OUTPUT_START_LINE..ol of the terminal, top row first.
OutputRows(scr, ol) ==
    [i \in 1..VisibleRows(ol) |-> scr[OUTPUT_START_LINE + i - 1]]

\* The last n entries of h.
TailOf(h, n) == SubSeq(h, Len(h) - n + 1, Len(h))

\* The loop shared by draw_scroll and the indexed branch of reset_scroll:
\* for i in 0..output_range, row OUTPUT_START_LINE + i is cleared and takes
\* history[start + i].  Rows whose index lies outside the history are never
\* written: the indexing panics first (see ReadsOutside).
DrawRows(scr, h, start, ol) ==
    [r \in DOMAIN scr |->
        IF r >= OUTPUT_START_LINE /\ r <= ol
           /\ start + (r - OUTPUT_START_LINE) < Len(h)
        THEN h[start + (r - OUTPUT_START_LINE) + 1]
        ELSE scr[r]]

\* Some history[index] of that loop has index >= history.len().
ReadsOutside(h, start, ol) ==
    VisibleRows(ol) > 0 /\ start + VisibleRows(ol) - 1 >= Len(h)

\* A replay of the history that starts with its newest line.
RECURSIVE ReplayAllNewestFirst(_, _, _)
ReplayAllNewestFirst(scr, h, ol) ==
    IF h = <<>> THEN scr
    ELSE ReplayAllNewestFirst(RenderLine(scr, ol, <<h[Len(h)]>>),
                              SubSeq(h, 1, Len(h) - 1), ol)

\* The else branch of reset_scroll: every line of the history is written at
\* output_line after a scroll::Up(1), oldest first.
RECURSIVE ReplayAll(_, _, _)
ReplayAll(scr, h, ol) ==
    IF h = <<>> THEN scr
    ELSE ReplayAll(RenderLine(scr, ol, <<Head(h)>>), Tail(h), ol)

\* A tail redraw that starts one line too early.
TailStartOneEarly(len, output_range) == len - output_range - 1

\* output_start_index of reset_scroll.
TailStart(len, output_range) == len - output_range

\* reset_scroll: scroll_data.0 = false, then the tail is redrawn.
ResetScrollOp(h, sd, scr, ol) ==
    LET output_range == VisibleRows(ol)
        output_start_index == TailStart(Len(h), output_range)
    IN  IF output_start_index >= 0
        THEN [scroll_data |-> <<FALSE, sd[2]>>,
              screen |-> DrawRows(scr, h, output_start_index, ol),
              writes |-> output_range,
              panicked |-> ReadsOutside(h, output_start_index, ol)]
        ELSE [scroll_data |-> <<FALSE, sd[2]>>,
              screen |-> ReplayAll(scr, h, ol),
              writes |-> Len(h),
              panicked |-> FALSE]

\* draw_scroll with scroll_data.1 = start.
DrawScrollOp(h, start, scr, ol) ==
    [scroll_data |-> <<TRUE, start>>,
     screen |-> DrawRows(scr, h, start, ol),
     writes |-> VisibleRows(ol),
     panicked |-> ReadsOutside(h, start, ol)]

\* --------------------------------------------------------------- appends
\* Appends that render whatever the mode.
AlwaysRender(sd) == TRUE

\* if !self.scroll_data.0 of print_line and print_prompt.
ShouldRender(sd) == ~sd[1]

\* print_line(line) applied to m = [history, capacity, screen, writes, appended].
PrintLine(m, sd, ol, fs) ==
    LET hc == AppendToHistory(<<m.history, m.capacity>>, fs)
        render == ShouldRender(sd)
    IN  [history |-> hc[1], capacity |-> hc[2],
         screen |-> IF render THEN RenderLine(m.screen, ol, fs) ELSE m.screen,
         writes |-> m.writes + (IF render THEN 1 ELSE 0),
         appended |-> m.appended \o fs]

\* The loop of print_output over the lines textwrap::wrap_iter yields.
RECURSIVE PrintLines(_, _, _, _)
PrintLines(m, sd, ol, lines) ==
    IF lines = <<>> THEN m
    ELSE PrintLines(PrintLine(m, sd, ol, Head(lines)), sd, ol, Tail(lines))

\* print_prompt(prompt) applied to m: the history takes the prompt as it is,
\* the terminal takes prompt.trim_end().
PrintPromptOp(m, sd, ol, fs) ==
    LET hc == AppendToHistory(<<m.history, m.capacity>>, fs)
        render == ShouldRender(sd)
    IN  [history |-> hc[1], capacity |-> hc[2],
         screen |-> IF render THEN RenderLine(m.screen, ol, TrimEnd(fs))
                    ELSE m.screen,
         writes |-> m.writes + (IF render THEN 1 ELSE 0),
         appended |-> m.appended \o fs]

\* The next unused line number.
NextId == 1 + Cardinality({i \in DOMAIN appended : appended[i] # Blank})

Fresh(n) == [i \in 1..n |-> NextId + i - 1]
Blanks(n) == [i \in 1..n |-> Blank]

Before(op, w) ==
    [op |-> op, history |-> history, scroll_data |-> scroll_data,
     screen |-> screen, writes |-> w]

NoTrip == [phase |-> "none", view |-> <<>>, tail |-> FALSE]

\* The bookkeeping of `paused` and `stale` for an operation that is not setup:
\* both are kept only while scrolling, n more fragments were appended, and
\* reset_scroll ends a stale geometry.
Noted(op, n) ==
    /\ paused' = IF scroll_data[1] THEN paused + n ELSE 0
    /\ stale' = (scroll_data[1] /\ stale /\ op # "reset_scroll")
    /\ UNCHANGED <<width, input_shown, typed>>

Machine ==
    [history |-> history, capacity |-> capacity, screen |-> screen,
     writes |-> 0, appended |-> appended]

Appended(op, m) ==
    /\ history' = m.history
    /\ capacity' = m.capacity
    /\ screen' = m.screen
    /\ appended' = m.appended
    /\ last' = Before(op, m.writes)
    /\ trip' = NoTrip
    /\ Noted(op, Len(m.appended) - Len(appended))
    /\ UNCHANGED <<output_line, prompt_line, scroll_data, panicked>>

\* print_output(line): a blank line (n empty fragments) goes to print_line
\* whole; any other line is wrapped into n lines, each without a "\r\n".
PrintOutput ==
    /\ ~panicked
    /\ \E n \in 1..MaxFragments, blank \in BOOLEAN :
        /\ Len(appended) + n <= MaxLines
        /\ LET lines == IF blank THEN <<Blanks(n)>>
                        ELSE [i \in 1..n |-> <<NextId + i - 1>>]
           IN  Appended("print_output",
                        PrintLines(Machine, scroll_data, output_line, lines))

\* print_prompt(prompt): n non-empty fragments, with or without a trailing
\* "\r\n" (a last, empty fragment).
PrintPrompt ==
    /\ ~panicked
    /\ \E n \in 1..MaxFragments, trailing \in BOOLEAN :
        /\ Len(appended) + n <= MaxLines
        /\ LET fs == IF trailing /\ n > 1 THEN Fresh(n - 1) \o <<Blank>>
                     ELSE Fresh(n)
           IN  Appended("print_prompt",
                        PrintPromptOp(Machine, scroll_data, output_line, fs))

\* ------------------------------------------------------------- scrolling
\* output_range of scroll_up and of scroll_down.
ScrollRange(ol) == ol - OUTPUT_START_LINE

\* `x as usize` of an i32.
AsUsize(x) == IF x < 0 THEN x + UsizeModulus ELSE x

\* A redraw that takes the line at the back out of the history.
RedrawnConsuming(op, r) ==
    /\ scroll_data' = r.scroll_data
    /\ screen' = r.screen
    /\ panicked' = r.panicked
    /\ last' = Before(op, r.writes)
    /\ Noted(op, 0)
    /\ history' = PopBack(history)
    /\ UNCHANGED <<output_line, prompt_line, capacity, appended>>

Redrawn(op, r) ==
    /\ scroll_data' = r.scroll_data
    /\ screen' = r.screen
    /\ panicked' = r.panicked
    /\ last' = Before(op, r.writes)
    /\ Noted(op, 0)
    /\ UNCHANGED <<output_line, prompt_line, history, capacity, appended>>

NoOp(op) ==
    /\ last' = Before(op, 0)
    /\ Noted(op, 0)
    /\ UNCHANGED <<output_line, prompt_line, history, capacity, scroll_data,
                   screen, panicked, appended>>

\* The start index scroll_up begins from.
ScrollUpBase(h, sd, ol) ==
    IF ~sd[1] THEN Len(h) - ScrollRange(ol) ELSE sd[2]

\* A scroll_up that forgets to move the start index.
ScrollUpStartUnmoved(h, sd, ol) == ScrollUpBase(h, sd, ol)

\* scroll_data.1 after scroll_up.
ScrollUpStart(h, sd, ol) ==
    ScrollUpBase(h, sd, ol) - Min(ScrollUpBase(h, sd, ol), ScrollStep)

\* The condition under which scroll_up does anything.
ScrollUpApplies(h, ol) == Len(h) > ScrollRange(ol)

ScrollUp ==
    /\ ~panicked
    /\ IF ScrollUpApplies(history, output_line)
       THEN LET start == ScrollUpStart(history, scroll_data, output_line)
            IN  /\ Redrawn("scroll_up",
                           DrawScrollOp(history, start, screen, output_line))
                /\ trip' =
                     IF ~scroll_data[1]
                     THEN IF Len(history) > VisibleRows(output_line)
                          THEN [phase |-> IF start = 0 THEN "zero" ELSE "up",
                                view |-> OutputRows(screen, output_line),
                                tail |-> OutputRows(screen, output_line)
                                         = TailOf(history, VisibleRows(output_line))]
                          ELSE NoTrip
                     ELSE IF trip.phase \in {"up", "zero"}
                          THEN [trip EXCEPT !.phase =
                                    IF start = 0 THEN "zero" ELSE "up"]
                          ELSE NoTrip
       ELSE NoOp("scroll_up") /\ trip' = NoTrip

\* A scroll_down that does not look at the mode.
ScrollDownAlways(sd) == TRUE

\* if self.scroll_data.0 of scroll_down.
ScrollDownActive(sd) == sd[1]

\* max_start_index and new_start_index of scroll_down.
MaxStartIndex(h, ol) == Len(h) - ScrollRange(ol)

\* A scroll_down that does not advance the start index.
NewStartIndexStuck(sd) == sd[2]

NewStartIndex(sd) == sd[2] + ScrollStep

\* The comparison of scroll_down with > in place of >=.
GoesLiveStrict(new, max) == new > AsUsize(max)

\* new_start_index >= max_start_index as usize.
GoesLive(new, max) == new >= AsUsize(max)

ScrollDown ==
    /\ ~panicked
    /\ IF ScrollDownActive(scroll_data)
       THEN LET live == GoesLive(NewStartIndex(scroll_data),
                                 MaxStartIndex(history, output_line))
            IN  /\ IF live
                   THEN Redrawn("scroll_down",
                                ResetScrollOp(history, scroll_data, screen,
                                              output_line))
                   ELSE Redrawn("scroll_down",
                                DrawScrollOp(history, NewStartIndex(scroll_data),
                                             screen, output_line))
                /\ trip' =
                     IF trip.phase \in {"zero", "down"}
                     THEN [trip EXCEPT !.phase = IF live THEN "done" ELSE "down"]
                     ELSE NoTrip
       ELSE NoOp("scroll_down") /\ trip' = NoTrip

ResetScroll ==
    /\ ~panicked
    /\ Redrawn("reset_scroll",
               ResetScrollOp(history, scroll_data, screen, output_line))
    /\ trip' = NoTrip

\* ------------------------------------------------------------------ spec
\* output_line and prompt_line as new and setup compute them.
OutputLine(height) == height - 2
PromptLine(height) == height

\* The terminal after setup: cleared, a separator on row 1 and on the row
\* below the output region.
SetupScreen(height) ==
    [r \in 1..height |->
        IF r = 1 \/ r = OutputLine(height) + 1 THEN Separator ELSE Blank]

\* Screen::new() followed by the setup() that installs the scroll region.
\* The heights MinHeight..MaxHeight give an output region of at least one row.
Init ==
    \E height \in MinHeight..MaxHeight :
        /\ output_line = OutputLine(height)
        /\ prompt_line = PromptLine(height)
        /\ history = <<>>
        /\ capacity = HistoryCapacity
        /\ scroll_data = <<FALSE, 0>>
        /\ screen = SetupScreen(height)
        /\ panicked = FALSE
        /\ appended = <<>>
        /\ last = [op |-> "new", history |-> <<>>, scroll_data |-> <<FALSE, 0>>,
                   screen |-> SetupScreen(height), writes |-> 0]
        /\ trip = NoTrip
        /\ width = MaxWidth
        /\ input_shown = <<>>
        /\ typed = <<>>
        /\ paused = 0
        /\ stale = FALSE

\* ------------------------------------------------- setup and prompt input
\* height - 2 in u16: below 2 the subtraction overflows, which panics in a
\* build with overflow checks and wraps around in one without.
OutputLines(height) ==
    IF height >= 2 THEN {OutputLine(height)}
    ELSE {OutputLine(height) + U16Modulus, Overflow}

\* setup() with the terminal reporting (w, height) and height - 2 giving ol:
\* reset() clears the terminal, the geometry is recomputed, the scroll region
\* is set and the separators are drawn.  History and scroll_data are not
\* touched.  (Rows beyond the terminal are not modelled.)
SetupOp(heights, widths) ==
    /\ ~panicked
    /\ \E height \in heights, w \in widths : \E ol \in OutputLines(height) :
        /\ width' = w
        /\ IF ol = Overflow
           THEN /\ panicked' = TRUE
                /\ screen' = [r \in 1..height |-> Blank]
                /\ UNCHANGED <<output_line, prompt_line>>
           ELSE /\ panicked' = FALSE
                /\ screen' = SetupScreen(height)
                /\ output_line' = ol
                /\ prompt_line' = PromptLine(height)
        /\ input_shown' = <<>>
        /\ last' = Before("setup", 7)
        /\ trip' = NoTrip
        /\ paused' = IF scroll_data[1] THEN paused ELSE 0
        /\ stale' = (scroll_data[1] /\ (stale \/ height # prompt_line))
        /\ UNCHANGED <<history, capacity, scroll_data, appended, typed>>

\* The loop of print_prompt_input with > in place of >=.
RECURSIVE TruncateInputLate(_, _)
TruncateInputLate(input, w) ==
    IF Len(input) > w
    THEN TruncateInputLate(SubSeq(input, w + 1, Len(input)), w)
    ELSE input

\* while input.len() >= width { input = input.split_at(width).1 }
RECURSIVE TruncateInput(_, _)
TruncateInput(input, w) ==
    IF Len(input) >= w
    THEN TruncateInput(SubSeq(input, w + 1, Len(input)), w)
    ELSE input

\* print_prompt_input(input): the input is n characters, numbered 1..n.
PrintPromptInputOp(lengths) ==
    /\ ~panicked
    /\ \E n \in lengths :
        /\ typed' = [i \in 1..n |-> i]
        /\ input_shown' = TruncateInput([i \in 1..n |-> i], width)
    /\ last' = Before("print_prompt_input", 1)
    /\ trip' = NoTrip
    /\ paused' = IF scroll_data[1] THEN paused ELSE 0
    /\ stale' = (scroll_data[1] /\ stale)
    /\ UNCHANGED <<output_line, prompt_line, history, capacity, scroll_data,
                   screen, panicked, appended, width>>

PrintPromptInput == PrintPromptInputOp(0..MaxInput)

\* Screen::new() with the terminal reporting any size: no setup yet, the
\* alternate screen is blank.  A new() that panics leaves no Screen.
InitAny ==
    \E height \in 0..MaxHeight, w \in MinWidth..MaxWidth :
      \E ol \in OutputLines(height) :
        /\ panicked = (ol = Overflow)
        /\ output_line = IF ol = Overflow THEN 0 ELSE ol
        /\ prompt_line = IF ol = Overflow THEN 0 ELSE PromptLine(height)
        /\ width = w
        /\ history = <<>>
        /\ capacity = HistoryCapacity
        /\ scroll_data = <<FALSE, 0>>
        /\ screen = [r \in 1..height |-> Blank]
        /\ appended = <<>>
        /\ last = [op |-> "new", history |-> <<>>, scroll_data |-> <<FALSE, 0>>,
                   screen |-> [r \in 1..height |-> Blank], writes |-> 0]
        /\ trip = NoTrip
        /\ input_shown = <<>>
        /\ typed = <<>>
        /\ paused = 0
        /\ stale = FALSE

\* setup() with whatever size the terminal reports.
SetupAny == SetupOp(0..MaxHeight, MinWidth..MaxWidth)

NextTerminal ==
    \/ SetupAny
    \/ PrintPromptInput

\* The Screen of any terminal size, driven by setup and print_prompt_input.
SpecTerminal == InitAny /\ [][NextTerminal]_vars

\* setup() after the terminal was resized to a height that leaves an output
\* region of at least one row.
Setup == SetupOp(MinHeight..MaxResizeHeight, MinWidth..MaxWidth)

PrintOutputFew == Len(appended) < MaxResizeLines /\ PrintOutput
PrintPromptFew == Len(appended) < MaxResizeLines /\ PrintPrompt
PrintPromptInputShort == PrintPromptInputOp(0..MaxResizeInput)

NextResize ==
    \/ PrintOutputFew
    \/ PrintPromptFew
    \/ ScrollUp
    \/ ScrollDown
    \/ ResetScroll
    \/ Setup
    \/ PrintPromptInputShort

\* Every operation of the Screen, resizes of the terminal included.
SpecResize == Init /\ [][NextResize]_vars

Next ==
    \/ PrintOutput
    \/ PrintPrompt
    \/ ScrollUp
    \/ ScrollDown
    \/ ResetScroll

Spec == Init /\ [][Next]_vars

\* Spec with a caller that keeps issuing scroll_down.
FairSpec == Spec /\ WF_vars(ScrollDown)

\* ================================================================ claims
Scrolling == scroll_data[1]
WindowStart == scroll_data[2]
Rows == VisibleRows(output_line)
IsAppend(op) == op \in {"print_output", "print_prompt"}

\* C1 (eviction order): once more than HistoryCapacity lines have been
\* appended, the history is the most recently appended lines in their
\* original order: a suffix of everything appended, ending with the line
\* appended last.
C1_EvictionOrder ==
    Len(appended) > HistoryCapacity =>
        /\ Len(history) > 0
        /\ Len(history) <= Len(appended)
        /\ history = TailOf(appended, Len(history))

\* C2 (capacity invariant): after every operation the history holds at most
\* HistoryCapacity lines.
C2_CapacityInvariant == Len(history) <= HistoryCapacity

\* C3 (scrollback bound): whenever the Screen is scrolling,
\* 0 <= window start <= len(history) - visible rows.
C3_ScrollbackBound ==
    Scrolling => 0 <= WindowStart /\ WindowStart <= Len(history) - Rows

\* C3 witness: a scroll_down that stayed scrolling and put the window start
\* on the upper bound.
C3_Witness ==
    /\ last.op = "scroll_down"
    /\ Scrolling
    /\ WindowStart = Len(history) - Rows
    /\ WindowStart > 0

\* C4 (scroll_up without enough history): a scroll_up that starts with
\* len(history) <= visible rows changes neither the mode nor the window start
\* nor the screen and issues no write.
C4_ScrollUpNoOp ==
    (last.op = "scroll_up" /\ Len(last.history) <= Rows) =>
        /\ scroll_data = last.scroll_data
        /\ screen = last.screen
        /\ last.writes = 0

\* C5 (scroll_down while live): a scroll_down that starts while not scrolling
\* leaves mode, window start, history and screen as they were and issues no
\* write.
C5_ScrollDownLiveNoOp ==
    (last.op = "scroll_down" /\ ~last.scroll_data[1]) =>
        /\ scroll_data = last.scroll_data
        /\ history = last.history
        /\ screen = last.screen
        /\ last.writes = 0

\* C5 witness: scroll_down was called while live with more history than rows.
C5_Witness ==
    /\ last.op = "scroll_down"
    /\ ~last.scroll_data[1]
    /\ Len(history) > Rows

\* C6 (scroll_up result): a scroll_up that starts with len(history) > visible
\* rows ends scrolling at max(0, b - 5), b = len(history) - visible rows when
\* it starts live and b = the window start when it starts scrolling.
C6_ScrollUpStart ==
    (last.op = "scroll_up" /\ Len(last.history) > Rows) =>
        LET b == IF last.scroll_data[1] THEN last.scroll_data[2]
                 ELSE Len(last.history) - Rows
        IN  scroll_data = <<TRUE, Max(0, b - ScrollStep)>>

\* C7 (scroll_down boundary): a scroll_down that starts scrolling at s goes
\* live exactly when s + 5 >= len(history) - visible rows and otherwise stays
\* scrolling at s + 5.
C7_ScrollDownBoundary ==
    (last.op = "scroll_down" /\ last.scroll_data[1]) =>
        LET max_start == Len(last.history) - Rows
            candidate == last.scroll_data[2] + ScrollStep
        IN  /\ (candidate >= max_start) <=> ~Scrolling
            /\ candidate < max_start => scroll_data = <<TRUE, candidate>>

\* C8 (round trip): scroll_up from live (more history than rows, the output
\* region showing the tail of the history) repeated until the window start
\* is 0, then scroll_down repeated until live, nothing appended in between:
\* the output region shows the rows it showed before the first scroll_up.
C8_RoundTrip ==
    (trip.phase = "done" /\ trip.tail) =>
        OutputRows(screen, output_line) = trip.view

\* C8 witness: such a round trip has ended, and it took a scroll_down that
\* stayed scrolling.
C8_Witness ==
    /\ trip.phase = "done"
    /\ trip.tail
    /\ Len(history) - Rows >= ScrollStep

\* C9 (live shows the most recent lines): while live with at least visible
\* rows lines in the history, the output region shows the most recently
\* appended lines, oldest on the top row.
C9_LiveShowsRecent ==
    (~Scrolling /\ Len(history) >= Rows) =>
        OutputRows(screen, output_line) = TailOf(appended, Rows)

\* C10 (append while scrolling): an append that starts scrolling issues no
\* write and leaves the screen, the mode and the window start as they were.
C10_AppendInScrollback ==
    (IsAppend(last.op) /\ last.scroll_data[1]) =>
        /\ last.writes = 0
        /\ screen = last.screen
        /\ scroll_data = last.scroll_data

\* C10 witness: a line was appended while scrolling and the history took it.
C10_Witness ==
    /\ IsAppend(last.op)
    /\ last.scroll_data[1]
    /\ history # last.history

\* C11 (nothing lost while paused): when a scroll_down or reset_scroll brings
\* the Screen back to live, every fragment appended since scrolling began is
\* still in the history, in order, and the one appended last is on the bottom
\* row of the output region.
C11_NoLossWhilePaused ==
    (/\ last.op \in {"scroll_down", "reset_scroll"}
     /\ last.scroll_data[1]
     /\ ~Scrolling
     /\ paused > 0) =>
        /\ paused <= Len(history)
        /\ TailOf(history, paused) = TailOf(appended, paused)
        /\ screen[output_line] = appended[Len(appended)]

C13_ResetShowsTail ==
    last.op = "reset_scroll" =>
        /\ ~Scrolling
        /\ IF Len(history) >= Rows
           THEN OutputRows(screen, output_line) = TailOf(history, Rows)
           ELSE \A i \in 1..Len(history) :
                    screen[output_line - Len(history) + i] = history[i]

\* C13 witness: a reset_scroll that replayed a history of at least two lines,
\* too short to fill the output region.
C13_Witness ==
    /\ last.op = "reset_scroll"
    /\ Len(history) >= 2
    /\ Len(history) < Rows

\* C14 (only appends change the history): scroll_up, scroll_down,
\* reset_scroll, setup and print_prompt_input leave the history as it was.
C14_OnlyAppendsMutate ==
    last.op \in {"scroll_up", "scroll_down", "reset_scroll", "setup",
                 "print_prompt_input"} =>
        history = last.history

\* C14 witness: a scroll_down redrew the tail of a history that fills the
\* output region.
C14_Witness ==
    /\ last.op = "scroll_down"
    /\ last.scroll_data[1]
    /\ ~Scrolling
    /\ Len(history) >= Rows

\* C15 (geometry invariant): after new or setup, whatever height the terminal
\* reports, nothing overflowed, output_line = height - 2, prompt_line = height
\* and OUTPUT_START_LINE <= output_line < prompt_line.
C15_GeometryInvariant ==
    /\ ~panicked
    /\ output_line = prompt_line - 2
    /\ OUTPUT_START_LINE <= output_line
    /\ output_line < prompt_line

\* C16 (redraws read inside the history): no redraw reads an index outside
\* the history, the window of a scrolling Screen ends inside the history, and
\* the max_start_index scroll_down would compute is not negative.
C16_ReadsInside ==
    /\ ~panicked
    /\ Scrolling =>
        /\ WindowStart + Rows <= Len(history)
        /\ MaxStartIndex(history, output_line) >= 0

\* C16 witness: a scroll_up drew a window whose last row is the last entry of
\* the history.
C16_Witness ==
    /\ last.op = "scroll_up"
    /\ last.writes = Rows
    /\ Scrolling
    /\ WindowStart + Rows = Len(history)

\* C17 (resize safety): after setup changed the height while scrolling and no
\* reset_scroll followed, a scroll_up or scroll_down reads no index outside
\* the history and leaves 0 <= window start <= len(history) - visible rows.
C17_ResizeSafety ==
    (stale /\ last.op \in {"scroll_up", "scroll_down"}) =>
        /\ ~panicked
        /\ Scrolling =>
            (0 <= WindowStart /\ WindowStart <= Len(history) - Rows)

\* C18 (resuming the live tail): a scroll_down that stays scrolling moves the
\* window start up by exactly 5, and when scroll_down keeps being issued
\* and scroll_up is issued only finitely often, a scrolling Screen becomes
\* live again.
C18_ResumeLive ==
    /\ []((last.op = "scroll_down" /\ last.scroll_data[1] /\ Scrolling) =>
            WindowStart = last.scroll_data[2] + ScrollStep)
    /\ \/ []<>(last.op = "scroll_up")
       \/ (Scrolling ~> ~Scrolling)

\* C18 witness: a scroll_down went live from a window start that an earlier
\* scroll_down had moved up.
C18_Witness ==
    /\ last.op = "scroll_down"
    /\ last.scroll_data[1]
    /\ ~Scrolling
    /\ trip.phase = "done"
    /\ last.scroll_data[2] >= ScrollStep

\* C19 (stable indices): an append leaves every entry that was in the
\* history at its index with its value: the history before is a prefix of
\* the history after.
C19_StableIndices ==
    IsAppend(last.op) =>
        /\ Len(last.history) <= Len(history)
        /\ SubSeq(history, 1, Len(last.history)) = last.history

\* C19 witness: an append to a scrolling Screen whose history was one short
\* of its capacity, so that the eviction loop ran.
C19_Witness ==
    /\ IsAppend(last.op)
    /\ last.scroll_data[1]
    /\ Len(last.history) = capacity - 1
    /\ Len(history) = Len(last.history)

====
